---------------------------- MODULE Spec2Model ----------------------------
(***************************************************************************)
(* Mizu Sensor Hub (src/main.cpp): the continuous telemetry loop of main(). *)
(*                                                                         *)
(* Every float of the program is a single-precision value, kept here as    *)
(* the exact dyadic rational m * 2^-e (a record [m, e], canonical: m odd   *)
(* or e = 0).  Arithmetic rounds to 24 significant bits, ties to even, as  *)
(* the target's single-precision arithmetic does, and printf's %.Nf        *)
(* rounds the exact binary value to N decimals, ties to even.  The line    *)
(* sent over the COM link is the sequence of its characters.               *)
(***************************************************************************)
EXTENDS Integers, Sequences, FiniteSets, TLC

(***************************************************************************)
(* Bounds of the model.                                                    *)
(***************************************************************************)
\* The cycle counter (instrumentation) saturates here; the loop itself
\* never stops.
MaxCycles == 3
\* The ambient sweep draws Fahrenheit readings from 32 - FahrBelow .. 32 + FahrAbove.
FahrBelow == 20
FahrAbove == 60

(***************************************************************************)
(* Single-precision arithmetic.                                            *)
(***************************************************************************)
\* The operators below that recurse are functions: a function's arguments
\* are values, so a deep recursion costs one evaluation per level.
Abs(x) == IF x < 0 THEN -x ELSE x

Pow[b \in Nat, n \in Nat] == IF n = 0 THEN 1 ELSE b * Pow[b, n - 1]

\* 2^24: a float's significand is below it.
SigLimit == Pow[2, 24]
\* 2^23: a normalised significand is at least this.
SigMin == Pow[2, 23]

\* <<q', r'>> with (q*c + r) * k^p = q'*c + r', 0 <= r < c: the product
\* itself is never formed, so nothing overflows (c * k < 2^31).
TimesPow[q \in Nat, r \in Nat, k \in Nat, p \in Nat, c \in Nat] ==
    IF p = 0 THEN <<q, r>>
    ELSE TimesPow[q * k + (r * k) \div c, (r * k) % c, k, p - 1, c]

\* <<q, r>> with a * k^p = q*c + r.
Scaled(a, k, p, c) == TimesPow[a \div c, a % c, k, p, c]

\* qr[1] + qr[2]/c rounded to nearest, ties to even.
RoundHalfEven[qr \in Nat \X Nat, c \in Nat] ==
    IF 2 * qr[2] > c \/ (2 * qr[2] = c /\ qr[1] % 2 = 1) THEN qr[1] + 1 ELSE qr[1]

\* The float m * 2^-e in lowest terms.
Canon[m \in Int, e \in Int] ==
    IF m = 0 THEN [m |-> 0, e |-> 0]
    ELSE IF e > 0 /\ m % 2 = 0 THEN Canon[m \div 2, e - 1]
    ELSE [m |-> m, e |-> e]

\* static_cast<float>(int), exact for |k| < 2^24.
IntToFloat(k) == [m |-> k, e |-> 0]

\* <<q, r>> with a * 2^p = q*c + r, for c < 2^24: in steps of 2^7.
Shifted[a \in Nat, p \in Nat, c \in Nat] ==
    LET by7 == TimesPow[a \div c, a % c, 128, p \div 7, c]
    IN  TimesPow[by7[1], by7[2], 2, p % 7, c]

BitLen[n \in Nat] == IF n = 0 THEN 0 ELSE 1 + BitLen[n \div 2]

\* The least p with a * 2^p / c >= 2^23 (a / c < 2^23).
NormShift[a \in Nat, c \in Nat] ==
    LET p1 == 23 - BitLen[a] + BitLen[c]
    IN  IF Shifted[a, p1, c][1] >= SigMin THEN p1 ELSE p1 + 1

\* x / y in single precision (|x / y| < 2^23 for the values of this program).
FDiv(x, y) ==
    IF x.m = 0 THEN [m |-> 0, e |-> 0]
    ELSE LET a == Abs(x.m)
             c == Abs(y.m)
             p == NormShift[a, c]
             q == RoundHalfEven[Shifted[a, p, c], c]
             s == IF (x.m < 0) = (y.m < 0) THEN 1 ELSE -1
         IN  Canon[s * q, p + x.e - y.e]

\* The least s with mag / 2^s < 2^24.
DropBits[mag \in Nat] == IF mag < SigLimit THEN 0 ELSE 1 + DropBits[mag \div 2]

\* x * y in single precision, for a product of significands below 2^31.
FMul(x, y) ==
    LET mag == Abs(x.m) * Abs(y.m)
        s   == DropBits[mag]
        q   == RoundHalfEven[<<mag \div Pow[2, s], mag % Pow[2, s]>>, Pow[2, s]]
        sg  == IF (x.m < 0) = (y.m < 0) THEN 1 ELSE -1
    IN  Canon[sg * q, x.e + y.e - s]

\* x - y for two floats with integer values (exact).
FSubInt(x, y) == IntToFloat(x.m - y.m)

\* The float literal n/d of the source text: the single-precision value
\* nearest to the decimal.
Lit(n, d) == FDiv(IntToFloat(n), IntToFloat(d))

(***************************************************************************)
(* printf's conversions, as characters.                                    *)
(***************************************************************************)
Digit == <<"0", "1", "2", "3", "4", "5", "6", "7", "8", "9">>

\* %d of a natural number.
Dec[n \in Nat] == IF n < 10 THEN <<Digit[n + 1]>> ELSE Dec[n \div 10] \o <<Digit[(n % 10) + 1]>>

\* The `digits` low decimal digits of n, zero padded.
Frac[n \in Nat, digits \in Nat] ==
    IF digits = 0 THEN <<>> ELSE Frac[n \div 10, digits - 1] \o <<Digit[(n % 10) + 1]>>

\* n / 10^digits written with `digits` fraction digits.
Fixed[n \in Nat, digits \in Nat] ==
    Dec[n \div Pow[10, digits]] \o <<".">> \o Frac[n % Pow[10, digits], digits]

\* %.<digits>f of the float x.
FormatF(x, digits) ==
    (IF x.m < 0 THEN <<"-">> ELSE <<>>)
    \o Fixed[RoundHalfEven[Scaled(Abs(x.m), 10, digits, Pow[2, x.e]), Pow[2, x.e]], digits]

(***************************************************************************)
(* Configuration (src/main.cpp, lines 39-43) and the literals of main().   *)
(***************************************************************************)
kDeviceId == <<"M", "I", "Z", "U", "_", "0", "0", "0", "1">>
kDummyWindSpeedMs == Lit(52, 10)

\* 32.0f, 1.8f and 100.0f of lines 95 and 101.
kThirtyTwo == IntToFloat(32)
kOnePointEight == Lit(18, 10)
kHundred == IntToFloat(100)
kZero == IntToFloat(0)

\* The format string of the one printf, split at its conversions: the text
\* before each conversion, the conversion, and the text after the last one.
kFormat ==
    << [text |-> <<"d", "e", "v", "i", "c", "e", "_", "i", "d", "=">>, conv |-> "%s"],
       [text |-> <<",", "a", "m", "b", "i", "e", "n", "t", "_", "t", "e", "m", "p", "=">>,
        conv |-> "%.2f"],
       [text |-> <<",", "h", "u", "m", "i", "d", "i", "t", "y", "=">>, conv |-> "%.2f"],
       [text |-> <<",", "s", "o", "i", "l", "_", "m", "o", "i", "s", "t", "u", "r", "e", "=">>,
        conv |-> "%.1f"],
       [text |-> <<",", "s", "o", "i", "l", "_", "t", "e", "m", "p", "=">>, conv |-> "%.1f"],
       [text |-> <<",", "w", "i", "n", "d", "_", "s", "p", "e", "e", "d", "=">>,
        conv |-> "%.1f"],
       [text |-> <<",", "l", "o", "n", "g", "i", "t", "u", "d", "e", "=">>, conv |-> "%.6f"],
       [text |-> <<",", "l", "a", "t", "i", "t", "u", "d", "e", "=">>, conv |-> "%.6f"],
       [text |-> <<"\r", "\n">>, conv |-> ""] >>

\* Mutant: every %.Nf prints two fraction digits.
Convert_twoDigits(conv, arg) ==
    IF conv = "%s" THEN arg ELSE FormatF(arg, 2)

\* One conversion of printf applied to its argument.
Convert(conv, arg) ==
    CASE conv = "%s"   -> arg
      [] conv = "%.1f" -> FormatF(arg, 1)
      [] conv = "%.2f" -> FormatF(arg, 2)
      [] conv = "%.6f" -> FormatF(arg, 6)

RECURSIVE Render(_, _)
\* The characters printf(fmt, args...) produces.
Render(fmt, args) ==
    IF fmt = <<>> THEN <<>>
    ELSE IF Head(fmt).conv = "" THEN Head(fmt).text \o Render(Tail(fmt), args)
    ELSE Head(fmt).text \o Convert(Head(fmt).conv, Head(args))
         \o Render(Tail(fmt), Tail(args))

(***************************************************************************)
(* The collaborators' answers.                                             *)
(***************************************************************************)
\* A call that returned without writing its output argument(s).
NoUpdate == [written |-> FALSE]
\* A loop-local variable outside its scope; an answer not yet asked for.
Undef == [defined |-> FALSE]
\* What the ambient driver's read() returns, which main() discards.
ReadOk == [ok |-> TRUE]
ReadFailed == [ok |-> FALSE]

\* The GPS sub-fields other than latitude and longitude, of a good and of a
\* poor fix.
GoodFix == [time |-> Lit(1235195, 10), ns |-> "N", ew |-> "W", quality |-> 1,
            sats |-> 8, hacc |-> Lit(9, 10), alt |-> Lit(5454, 10),
            unit |-> "m", check |-> 1]
PoorFix == [time |-> Lit(2359595, 10), ns |-> "S", ew |-> "E", quality |-> 0,
            sats |-> 0, hacc |-> Lit(999, 10), alt |-> Lit(-120, 10),
            unit |-> "f", check |-> 0]

\* The answers the collaborators may give in the field check: one execution.
FieldEnv ==
    [ execs     |-> {1},
      volts     |-> {Lit(37, 10), NoUpdate},
      temps     |-> {Lit(221, 10), Lit(-347, 100), NoUpdate},
      statuses  |-> {ReadOk, ReadFailed},
      readings  |-> {[f |-> 77, h |-> 60], [f |-> 31, h |-> 45]},
      fractions |-> {Lit(458, 1000), kZero},
      fixes     |-> {[lat |-> Lit(377749, 10000), lon |-> Lit(-1224194, 10000)],
                     [lat |-> Lit(-338688, 10000), lon |-> Lit(1512093, 10000)],
                     NoUpdate},
      aux       |-> {GoodFix} ]

\* Two executions fed the same published inputs and independent voltage and
\* GPS sub-fields.
PairEnv ==
    [ execs     |-> {1, 2},
      volts     |-> {Lit(37, 10), Lit(41, 10), NoUpdate},
      temps     |-> {Lit(221, 10), NoUpdate},
      statuses  |-> {ReadOk, ReadFailed},
      readings  |-> {[f |-> 77, h |-> 60], [f |-> 31, h |-> 45]},
      fractions |-> {Lit(458, 1000)},
      fixes     |-> {[lat |-> Lit(377749, 10000), lon |-> Lit(-1224194, 10000)],
                     NoUpdate},
      aux       |-> {GoodFix, PoorFix} ]

\* Few values from each collaborator, and every pattern of updates.
LiveEnv ==
    [ execs     |-> {1},
      volts     |-> {Lit(37, 10), NoUpdate},
      temps     |-> {Lit(221, 10), NoUpdate},
      statuses  |-> {ReadOk, ReadFailed},
      readings  |-> {[f |-> 77, h |-> 60], [f |-> 31, h |-> 45]},
      fractions |-> {Lit(458, 1000)},
      fixes     |-> {[lat |-> Lit(377749, 10000), lon |-> Lit(-1224194, 10000)],
                     NoUpdate},
      aux       |-> {GoodFix} ]

\* The ambient sensor swept over a range of Fahrenheit readings, each with a
\* humidity percentage in 0..100.
SweepEnv ==
    [ execs     |-> {1},
      volts     |-> {Lit(37, 10)},
      temps     |-> {Lit(221, 10)},
      statuses  |-> {ReadOk},
      readings  |-> {[f |-> k, h |-> (k + FahrBelow) % 101] :
                       k \in (32 - FahrBelow) .. (32 + FahrAbove)},
      fractions |-> {Lit(458, 1000)},
      fixes     |-> {[lat |-> Lit(377749, 10000), lon |-> Lit(-1224194, 10000)]},
      aux       |-> {GoodFix} ]

(***************************************************************************)
(* State.                                                                  *)
(*   pc       the statement main() is at                                   *)
(*   exec     per execution: main()'s working variables and what the COM   *)
(*            link was given                                               *)
(*   blocked  a collaborator call was entered and never returns            *)
(*   env      the values the collaborators may deliver (fixed at start)    *)
(* Instrumentation:                                                        *)
(*   cycle    number of the loop iteration, saturating at MaxCycles        *)
(*   calls    the calls made so far in this iteration, in order            *)
(*   setups   the gps_setting calls made so far                            *)
(*   got      what each published collaborator delivered in this iteration,*)
(*            and what the ambient getters returned in the one before      *)
(*   wrote    the last value the board-temperature collaborator wrote      *)
(***************************************************************************)
VARIABLES pc, exec, blocked, env, cycle, calls, setups, got, wrote

vars == <<pc, exec, blocked, env, cycle, calls, setups, got, wrote>>

\* main()'s working variables after their declarations (lines 55-75) and
\* a silent link.
Boot ==
    [ battery_voltage_v         |-> kZero,
      board_temp_c              |-> kZero,
      ambient_temp_c            |-> kZero,
      relative_humidity_percent |-> kZero,
      gps_quality_flag          |-> 0,
      gps_sat_count             |-> 0,
      gps_fix_check             |-> 0,
      gps_ns_indicator          |-> "N",
      gps_ew_indicator          |-> "E",
      gps_alt_unit              |-> "m",
      gps_time_utc              |-> kZero,
      gps_latitude_deg          |-> kZero,
      gps_longitude_deg         |-> kZero,
      gps_horz_acc_m            |-> kZero,
      gps_altitude_m            |-> kZero,
      soil_moisture_percent     |-> Undef,
      comms_link                |-> [line |-> <<>>, sent |-> 0] ]

Pending == [temp |-> Undef, dht |-> Undef, returned |-> Undef, held |-> Undef,
            soil |-> Undef, gps |-> Undef]

\* Mutant: the transmit is moved before the GPS read.
Succ_reordered(p) ==
    CASE p = "gps_setting" -> "vol"
      [] p = "vol"         -> "temp_sense"
      [] p = "temp_sense"  -> "dht11"
      [] p = "dht11"       -> "soil"
      [] p = "soil"        -> "printf"
      [] p = "printf"      -> "gga_sensing"
      [] p = "gga_sensing" -> "wait"
      [] p = "wait"        -> "vol"

\* Mutant: the loop ends after its first pass.
Succ_halts(p) ==
    CASE p = "gps_setting" -> "vol"
      [] p = "vol"         -> "temp_sense"
      [] p = "temp_sense"  -> "dht11"
      [] p = "dht11"       -> "soil"
      [] p = "soil"        -> "gga_sensing"
      [] p = "gga_sensing" -> "printf"
      [] p = "printf"      -> "wait"
      [] p = "wait"        -> "return"

\* The statement after statement p of main(): the body of while (true) in
\* its textual order, and back to its top.
Succ(p) ==
    CASE p = "gps_setting" -> "vol"
      [] p = "vol"         -> "temp_sense"
      [] p = "temp_sense"  -> "dht11"
      [] p = "dht11"       -> "soil"
      [] p = "soil"        -> "gga_sensing"
      [] p = "gga_sensing" -> "printf"
      [] p = "printf"      -> "wait"
      [] p = "wait"        -> "vol"

\* power_system.vol(&battery_voltage_v)
vol(s, w) == IF w = NoUpdate THEN s ELSE [s EXCEPT !.battery_voltage_v = w]

\* Mutant: board_temp_c is reset when the collaborator writes nothing (as
\* if it were declared inside the loop).
temp_sense_reset(s, w) == [s EXCEPT !.board_temp_c = IF w = NoUpdate THEN kZero ELSE w]

\* hepta_sensors.temp_sense(&board_temp_c)
temp_sense(s, w) == IF w = NoUpdate THEN s ELSE [s EXCEPT !.board_temp_c = w]

\* Mutant: the conversion in integer arithmetic, (f - 32) * 5 / 9.
read_ambient_intArith(s, status, r) ==
    LET ambient_temp_f_int == r.f
        humidity_int       == r.h
    IN  [s EXCEPT !.ambient_temp_c =
                      IntToFloat((IF ambient_temp_f_int < 32 THEN -1 ELSE 1)
                                 * ((Abs(ambient_temp_f_int - 32) * 5) \div 9)),
                  !.relative_humidity_percent = IntToFloat(humidity_int)]

\* Mutant: ambient_temp_c and relative_humidity_percent are overwritten only
\* when read() reported success.
read_ambient_onlyOnSuccess(s, status, r) ==
    LET ambient_temp_f_int == r.f
        humidity_int       == r.h
    IN  IF status = ReadFailed
        THEN s
        ELSE [s EXCEPT !.ambient_temp_c =
                           FDiv(FSubInt(IntToFloat(ambient_temp_f_int), kThirtyTwo),
                                kOnePointEight),
                       !.relative_humidity_percent = IntToFloat(humidity_int)]

\* Lines 92-96: read() is called and its status dropped; getFahrenheit() and
\* getHumidity() return the integers r.f and r.h, which are converted.
read_ambient(s, status, r) ==
    LET ambient_temp_f_int == r.f
        humidity_int       == r.h
    IN  [s EXCEPT !.ambient_temp_c =
                      FDiv(FSubInt(IntToFloat(ambient_temp_f_int), kThirtyTwo),
                           kOnePointEight),
                  !.relative_humidity_percent = IntToFloat(humidity_int)]

\* Line 101: float soil_moisture_percent = soil_moisture_sensor.read() * 100.0f
read_soil(s, raw) == [s EXCEPT !.soil_moisture_percent = FMul(raw, kHundred)]

\* Mutant: the latitude is negated for the southern hemisphere and the
\* longitude for the western.
gga_sensing_hemisphere(s, fix, a) ==
    IF fix = NoUpdate THEN s
    ELSE [s EXCEPT !.gps_time_utc = a.time,
                   !.gps_latitude_deg =
                       IF a.ns = "S" THEN [m |-> -fix.lat.m, e |-> fix.lat.e] ELSE fix.lat,
                   !.gps_ns_indicator = a.ns,
                   !.gps_longitude_deg =
                       IF a.ew = "W" THEN [m |-> -fix.lon.m, e |-> fix.lon.e] ELSE fix.lon,
                   !.gps_ew_indicator = a.ew,
                   !.gps_quality_flag = a.quality,
                   !.gps_sat_count = a.sats,
                   !.gps_horz_acc_m = a.hacc,
                   !.gps_altitude_m = a.alt,
                   !.gps_alt_unit = a.unit,
                   !.gps_fix_check = a.check]

\* Lines 104-109: gga_sensing writes all eleven outputs, or none.
gga_sensing(s, fix, a) ==
    IF fix = NoUpdate THEN s
    ELSE [s EXCEPT !.gps_time_utc = a.time,
                   !.gps_latitude_deg = fix.lat,
                   !.gps_ns_indicator = a.ns,
                   !.gps_longitude_deg = fix.lon,
                   !.gps_ew_indicator = a.ew,
                   !.gps_quality_flag = a.quality,
                   !.gps_sat_count = a.sats,
                   !.gps_horz_acc_m = a.hacc,
                   !.gps_altitude_m = a.alt,
                   !.gps_alt_unit = a.unit,
                   !.gps_fix_check = a.check]

\* Mutant: longitude and latitude in each other's place.
PrintfArgs_swapped(s) ==
    << kDeviceId, s.ambient_temp_c, s.relative_humidity_percent, s.soil_moisture_percent,
       s.board_temp_c, kDummyWindSpeedMs, s.gps_latitude_deg, s.gps_longitude_deg >>

\* Mutant: the wind speed taken from a live variable.
PrintfArgs_windLive(s) ==
    << kDeviceId, s.ambient_temp_c, s.relative_humidity_percent, s.soil_moisture_percent,
       s.board_temp_c, s.battery_voltage_v, s.gps_longitude_deg, s.gps_latitude_deg >>

\* Mutant: soil_temp taken from the ambient temperature.
PrintfArgs_soilFromAmbient(s) ==
    << kDeviceId, s.ambient_temp_c, s.relative_humidity_percent, s.soil_moisture_percent,
       s.ambient_temp_c, kDummyWindSpeedMs, s.gps_longitude_deg, s.gps_latitude_deg >>

\* The arguments of the one printf, lines 124-131.
PrintfArgs(s) ==
    << kDeviceId, s.ambient_temp_c, s.relative_humidity_percent, s.soil_moisture_percent,
       s.board_temp_c, kDummyWindSpeedMs, s.gps_longitude_deg, s.gps_latitude_deg >>

\* comms_link.printf(...): the link is given one more line.
com_printf(link, chars) == [line |-> chars, sent |-> link.sent + 1]

\* Lines 122-132.
transmit(s) ==
    [s EXCEPT !.comms_link = com_printf(s.comms_link, Render(kFormat, PrintfArgs(s)))]

\* wait(1.0f) and the end of the loop body: soil_moisture_percent goes out
\* of scope; the count of lines sent in the iteration starts again.
end_of_cycle(s) ==
    [s EXCEPT !.soil_moisture_percent = Undef,
              !.comms_link = [@ EXCEPT !.sent = 0]]

(***************************************************************************)
(* Actions: one per call of main().                                        *)
(***************************************************************************)
\* Instrumentation of a call named c: the first call after a completed
\* wait opens the next iteration.
Called(c) ==
    IF calls # <<>> /\ calls[Len(calls)] = "wait"
    THEN /\ calls' = <<c>>
         /\ cycle' = IF cycle < MaxCycles THEN cycle + 1 ELSE cycle
    ELSE /\ calls' = Append(calls, c)
         /\ cycle' = cycle

Running(p) == pc = p /\ ~blocked

InitWith(e) ==
    /\ env = e
    /\ pc = "gps_setting"
    /\ exec = [r \in e.execs |-> Boot]
    /\ blocked = FALSE
    /\ cycle = 1
    /\ calls = <<>>
    /\ setups = 0
    /\ got = Pending
    /\ wrote = kZero

Init == InitWith(FieldEnv)

\* Line 51: hepta_sensors.gps_setting()
GpsSetting ==
    /\ Running("gps_setting")
    /\ pc' = Succ(pc)
    /\ setups' = setups + 1
    /\ UNCHANGED <<exec, blocked, env, cycle, calls, got, wrote>>

\* Line 83
Vol ==
    /\ Running("vol")
    /\ \E w \in [env.execs -> env.volts] :
          exec' = [r \in env.execs |-> vol(exec[r], w[r])]
    /\ pc' = Succ(pc)
    /\ Called("vol")
    /\ UNCHANGED <<blocked, env, setups, got, wrote>>

\* Line 87
TempSense ==
    /\ Running("temp_sense")
    /\ \E w \in env.temps :
          /\ exec' = [r \in env.execs |-> temp_sense(exec[r], w)]
          /\ got' = [got EXCEPT !.temp = w]
          /\ wrote' = IF w = NoUpdate THEN wrote ELSE w
    /\ pc' = Succ(pc)
    /\ Called("temp_sense")
    /\ UNCHANGED <<blocked, env, setups>>

\* Lines 92-96
Dht11 ==
    /\ Running("dht11")
    /\ \E status \in env.statuses : \E r \in env.readings :
          /\ exec' = [x \in env.execs |-> read_ambient(exec[x], status, r)]
          /\ got' = [got EXCEPT !.dht = status, !.returned = r]
    /\ pc' = Succ(pc)
    /\ Called("dht11")
    /\ UNCHANGED <<blocked, env, setups, wrote>>

\* Line 101
Soil ==
    /\ Running("soil")
    /\ \E raw \in env.fractions :
          /\ exec' = [r \in env.execs |-> read_soil(exec[r], raw)]
          /\ got' = [got EXCEPT !.soil = raw]
    /\ pc' = Succ(pc)
    /\ Called("soil")
    /\ UNCHANGED <<blocked, env, setups, wrote>>

\* Lines 104-109
GgaSensing ==
    /\ Running("gga_sensing")
    /\ \E fix \in env.fixes : \E a \in [env.execs -> env.aux] :
          /\ exec' = [r \in env.execs |-> gga_sensing(exec[r], fix, a[r])]
          /\ got' = [got EXCEPT !.gps = fix]
    /\ pc' = Succ(pc)
    /\ Called("gga_sensing")
    /\ UNCHANGED <<blocked, env, setups, wrote>>

\* Lines 122-132
Printf ==
    /\ Running("printf")
    /\ exec' = [r \in env.execs |-> transmit(exec[r])]
    /\ pc' = Succ(pc)
    /\ Called("printf")
    /\ UNCHANGED <<blocked, env, setups, got, wrote>>

\* Line 135, and the loop's back edge.
Wait ==
    /\ Running("wait")
    /\ exec' = [r \in env.execs |-> end_of_cycle(exec[r])]
    /\ got' = [Pending EXCEPT !.held = got.returned]
    /\ pc' = Succ(pc)
    /\ Called("wait")
    /\ UNCHANGED <<blocked, env, setups, wrote>>

\* The call main() is about to make never returns: no read has a timeout.
Block ==
    /\ ~blocked
    /\ blocked' = TRUE
    /\ UNCHANGED <<pc, exec, env, cycle, calls, setups, got, wrote>>

\* The statements of main().
Step ==
    \/ GpsSetting
    \/ Vol
    \/ TempSense
    \/ Dht11
    \/ Soil
    \/ GgaSensing
    \/ Printf
    \/ Wait

Next == Step \/ Block

Spec == Init /\ [][Next]_vars

\* Two executions side by side.
InitPair == InitWith(PairEnv)
SpecPair == InitPair /\ [][Step]_vars

\* The ambient sweep.
InitSweep == InitWith(SweepEnv)
SpecSweep == InitSweep /\ [][Step]_vars

\* The processor keeps executing main(): a call that returns is followed by
\* the next statement.
InitLive == InitWith(LiveEnv)
SpecLive == InitLive /\ [][Next]_vars /\ WF_vars(Step)

(***************************************************************************)
(* Reading a transmitted line back: its comma-separated key=value fields.  *)
(***************************************************************************)
Line(r) == exec[r].comms_link.line

Commas(l) == {i \in 1 .. Len(l) : l[i] = ","}

RECURSIVE Ascending(_)
Ascending(S) ==
    IF S = {} THEN <<>>
    ELSE LET m == CHOOSE i \in S : \A j \in S : i <= j
         IN  <<m>> \o Ascending(S \ {m})

\* The fields of a line that ends in its two-character terminator: what lies
\* between the start, the commas and the terminator.
FieldsAt(l, cuts) == [k \in 1 .. Len(cuts) - 1 |-> SubSeq(l, cuts[k] + 1, cuts[k + 1] - 1)]
Fields(l) == FieldsAt(l, <<0>> \o Ascending(Commas(l)) \o <<Len(l) - 1>>)

Equals(f) == {i \in 1 .. Len(f) : f[i] = "="}
KeyIn(f) == SubSeq(f, 1, (CHOOSE i \in Equals(f) : \A j \in Equals(f) : i <= j) - 1)
ValueIn(f) == SubSeq(f, (CHOOSE i \in Equals(f) : \A j \in Equals(f) : i <= j) + 1, Len(f))

\* The value of the k-th field of line l.
ValueOf(l, k) == ValueIn(Fields(l)[k])

DigitChars == {Digit[i] : i \in 1 .. 10}

\* v is an optional minus sign, at least one digit, a point and exactly
\* `digits` digits.
IsFixed(v, digits) ==
    LET body == IF v # <<>> /\ v[1] = "-" THEN Tail(v) ELSE v
        n    == Len(body)
    IN  /\ n >= digits + 2
        /\ body[n - digits] = "."
        /\ \A i \in 1 .. n : i # n - digits => body[i] \in DigitChars

RECURSIVE Str(_)
\* The characters as one string.
Str(l) ==
    IF l = <<>> THEN ""
    ELSE IF Len(l) = 1 THEN l[1]
    ELSE Str(SubSeq(l, 1, Len(l) \div 2)) \o Str(SubSeq(l, Len(l) \div 2 + 1, Len(l)))

\* The keys of the wire format in their order, and the fraction digits of
\* the seven numeric fields.
WireKeys ==
    << <<"d", "e", "v", "i", "c", "e", "_", "i", "d">>,
       <<"a", "m", "b", "i", "e", "n", "t", "_", "t", "e", "m", "p">>,
       <<"h", "u", "m", "i", "d", "i", "t", "y">>,
       <<"s", "o", "i", "l", "_", "m", "o", "i", "s", "t", "u", "r", "e">>,
       <<"s", "o", "i", "l", "_", "t", "e", "m", "p">>,
       <<"w", "i", "n", "d", "_", "s", "p", "e", "e", "d">>,
       <<"l", "o", "n", "g", "i", "t", "u", "d", "e">>,
       <<"l", "a", "t", "i", "t", "u", "d", "e">> >>
WireDigits == <<0, 2, 2, 1, 1, 1, 6, 6>>

WellFormedFields(fs) ==
    /\ Len(fs) = 8
    /\ \A k \in 1 .. 8 :
          /\ Cardinality(Equals(fs[k])) = 1
          /\ KeyIn(fs[k]) = WireKeys[k]
          /\ k > 1 => IsFixed(ValueIn(fs[k]), WireDigits[k])
    /\ ValueIn(fs[1]) # <<>>

WellFormed(l) ==
    /\ Len(l) >= 2
    /\ l[Len(l) - 1] = "\r"
    /\ l[Len(l)] = "\n"
    /\ \A i \in 1 .. Len(l) - 2 : l[i] \notin {"\r", "\n"}
    /\ WellFormedFields(Fields(l))

Sent == pc = "wait"

V(k) == ValueOf(Line(1), k)

\* The same in the line being sent by the step.
NewV(k) == ValueOf(exec'[1].comms_link.line, k)

\* The main() step that sends the line.
Sending == pc = "printf" /\ pc' = "wait"

\* What %.Nf prints for the start value 0.0f of main()'s variables.
ZeroText(digits) == FormatF(kZero, digits)

\* (f - 32) / 1.8 to two decimals, in exact arithmetic: |f - 32| * 500 / 9
\* hundredths, rounded to nearest.
ExactCelsiusText(f) ==
    LET n == RoundHalfEven[<<(Abs(f - 32) * 500) \div 9, (Abs(f - 32) * 500) % 9>>, 9]
    IN  (IF f < 32 THEN <<"-">> ELSE <<>>) \o Fixed[n, 2]

\* An integer percentage with two fraction digits.
WholePercentText(h) == Dec[h] \o <<".", "0", "0">>

\* raw * 100 to one decimal, of the exact product.
ExactPercentText(raw) == FormatF([m |-> raw.m * 100, e |-> raw.e], 1)

\* C1 as stated: in a cycle n >= 2 in which the call feeding a field
\* reported nothing new (temp_sense or gga_sensing wrote nothing; read()
\* failed and the getters returned what they had returned before), the field
\* repeats the previous line's value and is not the startup default; in
\* cycle 1 soil_temp, longitude and latitude are the startup default, the
\* 0.0 of main()'s variables.
C1_AsStated ==
    [][Sending =>
         /\ got.temp = NoUpdate =>
               IF cycle >= 2 THEN NewV(5) = V(5) /\ NewV(5) # ZeroText(1)
               ELSE NewV(5) = ZeroText(1)
         /\ got.gps = NoUpdate =>
               IF cycle >= 2
               THEN /\ NewV(7) = V(7) /\ NewV(7) # ZeroText(6)
                    /\ NewV(8) = V(8) /\ NewV(8) # ZeroText(6)
               ELSE NewV(7) = ZeroText(6) /\ NewV(8) = ZeroText(6)
         /\ cycle >= 2 /\ got.dht = ReadFailed /\ got.returned = got.held =>
               NewV(2) = V(2) /\ NewV(3) = V(3)
    ]_vars

\* C1 as amended: in a cycle n >= 2 in which temp_sense or gga_sensing wrote
\* nothing, soil_temp or longitude and latitude repeat the previous line's
\* value, whatever that was (0.0 included, when the call has never written);
\* in cycle 1 they are 0.0.  ambient_temp and humidity are computed from the
\* getters in every cycle, the first included: they repeat the previous
\* line's values when the getters return what they returned the cycle
\* before.  device_id and wind_speed repeat in every line.
C1_CarryForward ==
    [][Sending =>
         /\ got.temp = NoUpdate =>
               IF cycle >= 2 THEN NewV(5) = V(5) ELSE NewV(5) = ZeroText(1)
         /\ got.gps = NoUpdate =>
               IF cycle >= 2 THEN NewV(7) = V(7) /\ NewV(8) = V(8)
               ELSE NewV(7) = ZeroText(6) /\ NewV(8) = ZeroText(6)
         /\ IF cycle >= 2
            THEN got.returned = got.held => NewV(2) = V(2) /\ NewV(3) = V(3)
            ELSE /\ NewV(2) = ExactCelsiusText(got.returned.f)
                 /\ NewV(3) = WholePercentText(got.returned.h)
         /\ cycle >= 2 => NewV(1) = V(1) /\ NewV(6) = V(6)
    ]_vars

\* C1's case: a line of a later cycle repeats a board temperature written in
\* an earlier one, the collaborator having written nothing in this cycle.
C1_Witness ==
    /\ Sent /\ cycle >= 2
    /\ got.temp = NoUpdate /\ wrote # kZero
    /\ V(5) = FormatF(wrote, 1)
    /\ got.dht = ReadFailed /\ got.returned = got.held

\* The scenario of C3: the first cycle with 3.7 V, 22.1 degrees on the board,
\* (77 F, 60 %), soil fraction 0.458 and the fix 37.7749, -122.4194.
C3_Scenario ==
    /\ Sent /\ cycle = 1
    /\ exec[1].battery_voltage_v = Lit(37, 10)
    /\ got.temp = Lit(221, 10)
    /\ got.returned = [f |-> 77, h |-> 60]
    /\ got.soil = Lit(458, 1000)
    /\ got.gps = [lat |-> Lit(377749, 10000), lon |-> Lit(-1224194, 10000)]

C4_WindSpeedConstant ==
    \A r \in env.execs :
        Line(r) # <<>> =>
            /\ KeyIn(Fields(Line(r))[6]) = WireKeys[6]
            /\ ValueOf(Line(r), 6) = <<"5", ".", "2">>

\* C4's case: a line of a later cycle, after the sensors delivered values.
C4_Witness ==
    /\ Sent /\ cycle >= 2
    /\ got.temp # NoUpdate /\ got.dht = ReadOk /\ got.gps = NoUpdate
    /\ exec[1].battery_voltage_v # kZero
    /\ V(6) = <<"5", ".", "2">>

\* C5: two executions given the same board temperature, ambient reading,
\* soil fraction, latitude and longitude in every cycle, and any voltages and
\* other GPS sub-fields, have sent the same lines.
C5_LineIgnoresVoltageAndGpsAux ==
    \A r \in env.execs : exec[r].comms_link = exec[1].comms_link

\* C5's case: a line sent by two executions that differ in the voltage and in
\* every GPS sub-field other than latitude and longitude.
C5_Witness ==
    /\ Sent /\ cycle >= 2
    /\ exec[1].battery_voltage_v # exec[2].battery_voltage_v
    /\ exec[1].gps_time_utc # exec[2].gps_time_utc
    /\ exec[1].gps_ns_indicator # exec[2].gps_ns_indicator
    /\ exec[1].gps_ew_indicator # exec[2].gps_ew_indicator
    /\ exec[1].gps_quality_flag # exec[2].gps_quality_flag
    /\ exec[1].gps_sat_count # exec[2].gps_sat_count
    /\ exec[1].gps_horz_acc_m # exec[2].gps_horz_acc_m
    /\ exec[1].gps_altitude_m # exec[2].gps_altitude_m
    /\ exec[1].gps_alt_unit # exec[2].gps_alt_unit
    /\ exec[1].gps_fix_check # exec[2].gps_fix_check
    /\ Line(1) # <<>>

\* C6: the ambient_temp of a cycle's line is (f - 32) / 1.8 to two decimals
\* for the Fahrenheit integer f the driver returned in that cycle (25.00 for
\* 77), and the humidity is the returned integer percentage with two
\* fraction digits.
C6_AmbientConversion ==
    Sent =>
        /\ V(2) = ExactCelsiusText(got.returned.f)
        /\ V(3) = WholePercentText(got.returned.h)
        /\ got.returned.f = 77 => V(2) = <<"2", "5", ".", "0", "0">>

\* C6's case: a line sent in a cycle in which the driver returned 77 F.
C6_Witness ==
    /\ Sent /\ cycle >= 2
    /\ got.dht = ReadOk /\ got.returned.f = 77
    /\ V(2) = <<"2", "5", ".", "0", "0">>

Order == <<"vol", "temp_sense", "dht11", "soil", "gga_sensing", "printf", "wait">>

\* C8: the calls of a cycle are made in the order power, board temperature,
\* ambient, soil moisture, GPS, transmit, pause, each once, the next cycle's
\* first read after the pause; gps_setting is called once, before the first
\* read, and never again.
C8_StrictOrder ==
    /\ Len(calls) <= Len(Order)
    /\ calls = SubSeq(Order, 1, Len(calls))
    /\ setups = IF pc = "gps_setting" THEN 0 ELSE 1
    /\ pc = "gps_setting" => calls = <<>> /\ cycle = 1
    /\ pc # "gps_setting" => pc = Order[(Len(calls) % Len(Order)) + 1]

\* C8's case: a later cycle with its five reads and its transmit done.
C8_Witness ==
    /\ cycle >= 2 /\ setups = 1
    /\ calls = SubSeq(Order, 1, 6)
    /\ pc = "wait"

\* C9: as long as no call blocks, a line is sent again and again, whatever
\* the reads updated; once a call has blocked, the link is given nothing
\* more.
C9_RunsForever ==
    /\ ([]~blocked) => ([]<>(pc = "printf") /\ []<>Sent)
    /\ [][blocked => blocked' /\ \A r \in env.execs :
                                    exec'[r].comms_link = exec[r].comms_link]_vars

\* C9's case: a line sent in a late cycle in which no read updated.
C9_Witness ==
    /\ Sent /\ cycle = MaxCycles /\ ~blocked
    /\ got.temp = NoUpdate /\ got.dht = ReadFailed /\ got.gps = NoUpdate

=============================================================================
